---- MODULE Spec2Model ----
(***************************************************************************)
(* Model of entropy/base/__init__.py: the slug mixin (BaseSlugMixin.save,  *)
(* BaseSlugMixin.slugify_uniquely) and the attribute mixin                 *)
(* (AttributeMixin.__getitem__, __setitem__).                              *)
(*                                                                         *)
(* Text is a sequence of one-character strings.  Python's None text is the *)
(* one-element sequence None; a missing id (None) is 0, which `not         *)
(* self.id` treats the same way.                                           *)
(***************************************************************************)
EXTENDS Integers, Sequences, FiniteSets, TLC

VARIABLES
    obj,      \* BaseSlugMixin: the in-memory model instances
    db,       \* BaseSlugMixin: the rows of the models' tables, in insertion order
    attrs,    \* AttributeMixin: the Attribute rows, per (owner, name)
    req,      \* AttributeMixin: each request's position in __setitem__
    last,     \* history: the mapping operation that returned most recently
    written,  \* history: per (owner, key) the value of the latest set that saved a row
    overlap   \* history: per (owner, key) whether two sets ran at the same time

vars == <<obj, db, attrs, req, last, written, overlap>>

slugVars == <<obj, db>>

attrVars == <<attrs, req, last, written, overlap>>

\* ------------------------------------------------------------------ bounds
\* model instances constructed
MaxInst == 3

\* text edits made to persisted instances
MaxEdits == 1

\* persisted owners of attributes, and concurrent requests writing them
MaxOwner == 2

MaxReq == 2

Owners == 1..MaxOwner

Reqs == 1..MaxReq

Inst == 1..MaxInst

\* ------------------------------------------------------------------- text
None == <<"None">>

Empty == <<>>

IsWord(c) == c \in {"a", "b", "A", "B", "1", "2", "_"}

IsSpace(c) == c = " "

Lower(c) == IF c = "A" THEN "a" ELSE IF c = "B" THEN "b" ELSE c

RECURSIVE LStrip(_)
LStrip(s) == IF s # <<>> /\ IsSpace(Head(s)) THEN LStrip(Tail(s)) ELSE s

RECURSIVE RStrip(_)
RStrip(s) ==
    IF s # <<>> /\ IsSpace(s[Len(s)]) THEN RStrip(SubSeq(s, 1, Len(s) - 1)) ELSE s

Strip(s) == RStrip(LStrip(s))

IsSep(c) == c = "-" \/ IsSpace(c)

\* re.sub('[-\s]+', '-', value): every maximal run of separators becomes one "-"
RECURSIVE Collapse(_)
Collapse(s) ==
    IF s = <<>> THEN <<>>
    ELSE IF IsSep(Head(s))
         THEN IF Len(s) > 1 /\ IsSep(s[2]) THEN Collapse(Tail(s))
              ELSE <<"-">> \o Collapse(Tail(s))
         ELSE <<Head(s)>> \o Collapse(Tail(s))

\* django.utils.text.slugify: drop what is not a word character, white space
\* or hyphen, strip, lowercase, collapse separator runs to one hyphen
slugify(value) ==
    LET kept == SelectSeq(value, LAMBDA c : IsWord(c) \/ IsSpace(c) \/ c = "-")
        stripped == Strip(kept)
        lowered == [k \in 1..Len(stripped) |-> Lower(stripped[k])]
    IN  Collapse(lowered)

Digit == <<"0", "1", "2", "3", "4", "5", "6", "7", "8", "9">>

RECURSIVE str(_)
str(n) == IF n < 10 THEN <<Digit[n + 1]>> ELSE str(n \div 10) \o <<Digit[(n % 10) + 1]>>

\* variant: the suffix built before `index += 1`
SuffixedBeforeIncrement(slug_prefix, index) ==
    slug_prefix \o <<"-">> \o str(index - 1)

\* slug_prefix + '-' + str(index)
Suffixed(slug_prefix, index) == slug_prefix \o <<"-">> \o str(index)

\* ------------------------------------------------------------ entity types
\* Concrete models composed from the mixins: which text field each declares
\* and whether its slug column is unique (SlugUniqueMixin) or not (SlugMixin).
Models == {"Page", "Tag", "Plain"}

HasTitle(model) == model = "Page"

HasName(model) == model = "Tag"

SlugUnique(model) == model = "Tag"

\* texts a caller may later assign to the title or name of a persisted instance
NewTexts == { <<"B", " ", "-", "2">> }

\* the constructor calls exercised: model, title or name, slug set by hand
Inputs ==
    { [model |-> "Page", text |-> <<"A">>, slug |-> Empty],
      [model |-> "Page", text |-> <<"a", "!">>, slug |-> Empty],
      [model |-> "Page", text |-> <<"!">>, slug |-> Empty],
      [model |-> "Page", text |-> None, slug |-> Empty],
      [model |-> "Page", text |-> <<"A">>, slug |-> <<"a", "-", "1">>],
      [model |-> "Tag", text |-> <<"A">>, slug |-> Empty],
      [model |-> "Plain", text |-> None, slug |-> Empty] }

\* An instance not yet constructed.  pc, slug_prefix, index and cand (the
\* local `slug`) are the position and locals of a running save(); the rest
\* after outcome is history: outcome is how the latest save() returned, auto
\* that slugify_uniquely assigned the slug, saved and first that the row was
\* inserted and with which slug, raced that another row of the model was
\* inserted while the first save ran, edits and dirty the text edits made and
\* whether one is unsaved.
Fresh ==
    [born |-> FALSE, model |-> "Plain", title |-> None, name |-> None,
     slug |-> Empty, id |-> 0, pc |-> "idle", slug_prefix |-> Empty,
     index |-> 0, cand |-> Empty, outcome |-> "none", auto |-> FALSE,
     first |-> Empty, saved |-> FALSE, raced |-> FALSE, edits |-> 0,
     dirty |-> FALSE]

\* ----------------------------------------------------- BaseSlugMixin state
\* obj[i]: the in-memory model instance i; db: the rows of all the models'
\* tables in insertion order, a row's id being its position (an id is only
\* ever tested for presence and used to find the row again).

\* variant: a look-up that inspects the latest row only
ExistsLatestOnly(model, slug) ==
    Len(db) > 0 /\ db[Len(db)].model = model /\ db[Len(db)].slug = slug

\* model.objects.filter(slug=slug).exists()
Exists(model, slug) ==
    \E k \in 1..Len(db) : db[k].model = model /\ db[k].slug = slug

\* variant: a save() that slugs without a guard
NeedsSlugAlways(o) == TRUE

\* not self.id and not self.slug
NeedsSlug(o) == o.id = 0 /\ o.slug = Empty

\* the two hasattr tests: name, when declared, overrides title
Bound(model) == HasTitle(model) \/ HasName(model)

SluggableOf(o) == IF HasName(o.model) THEN o.name ELSE o.title

\* text edits made so far
RECURSIVE SumEdits(_)
SumEdits(n) == IF n = 0 THEN 0 ELSE obj[n].edits + SumEdits(n - 1)

Edits == SumEdits(MaxInst)

\* Model(title=..., name=..., slug=...): a new unsaved instance
Construct(i, model, text, slug) ==
    /\ ~obj[i].born
    /\ \A j \in 1..(i - 1) : obj[j].born
    /\ obj' = [obj EXCEPT ![i] =
                 [Fresh EXCEPT !.born = TRUE, !.model = model,
                               !.title = IF HasTitle(model) THEN text ELSE None,
                               !.name = IF HasName(model) THEN text ELSE None,
                               !.slug = slug]]
    /\ UNCHANGED <<db, attrVars>>

\* instance.title = text / instance.name = text on a persisted instance
SetText(i, text) ==
    /\ obj[i].born /\ obj[i].pc = "idle" /\ obj[i].id # 0
    /\ Bound(obj[i].model)
    /\ SluggableOf(obj[i]) # text
    /\ Edits < MaxEdits
    /\ obj' = [obj EXCEPT ![i].title = IF HasTitle(obj[i].model) THEN text ELSE @,
                          ![i].name = IF HasName(obj[i].model) THEN text ELSE @,
                          ![i].edits = @ + 1, ![i].dirty = TRUE]
    /\ UNCHANGED <<db, attrVars>>

\* save(), up to the first query: the guard, the hasattr tests, slugify
Begun(o) ==
    IF NeedsSlug(o)
    THEN IF ~Bound(o.model)
         THEN \* `sluggable` was never bound: UnboundLocalError
              [o EXCEPT !.outcome = "UnboundLocalError"]
         ELSE IF SluggableOf(o) # None
              THEN [o EXCEPT !.pc = "while",
                             !.slug_prefix = slugify(SluggableOf(o)),
                             !.cand = slugify(SluggableOf(o)),
                             !.index = 0,
                             !.raced = IF o.id = 0 THEN FALSE ELSE @]
              ELSE [o EXCEPT !.pc = "super",
                             !.raced = IF o.id = 0 THEN FALSE ELSE @]
    ELSE [o EXCEPT !.pc = "super", !.raced = IF o.id = 0 THEN FALSE ELSE @]

\* one evaluation of the while condition of slugify_uniquely, and either the
\* loop body or the return and the assignment to self.slug
Looped(o) ==
    IF Exists(o.model, o.cand)
    THEN [o EXCEPT !.index = o.index + 1,
                   !.cand = Suffixed(o.slug_prefix, o.index + 1)]
    ELSE [o EXCEPT !.slug = o.cand, !.auto = TRUE, !.pc = "super"]

\* slugify_uniquely run to its return
RECURSIVE slugify_uniquely(_)
slugify_uniquely(o) == IF o.pc = "while" THEN slugify_uniquely(Looped(o)) ELSE o

\* history: a first save that has begun and not yet returned
InFirstSave(o) == o.pc # "idle" /\ o.id = 0

\* super(BaseSlugMixin, self).save() of instance i, its fields being o:
\* insert (or update) the row
SuperSave(i, o) ==
    IF o.id = 0
    THEN IF SlugUnique(o.model) /\ Exists(o.model, o.slug)
         THEN /\ obj' = [obj EXCEPT ![i] =
                           [o EXCEPT !.pc = "idle", !.index = 0, !.cand = Empty,
                                     !.outcome = "IntegrityError"]]
              /\ db' = db
         ELSE /\ db' = Append(db, [model |-> o.model, slug |-> o.slug, inst |-> i])
              /\ obj' = [j \in Inst |->
                           IF j = i
                           THEN [o EXCEPT !.pc = "idle", !.id = Len(db) + 1,
                                          !.index = 0, !.cand = Empty,
                                          !.outcome = "ok", !.saved = TRUE,
                                          !.first = o.slug]
                           ELSE IF InFirstSave(obj[j]) /\ obj[j].model = o.model
                                THEN [obj[j] EXCEPT !.raced = TRUE]
                                ELSE obj[j]]
    ELSE /\ db' = [db EXCEPT ![o.id].slug = o.slug]
         /\ obj' = [obj EXCEPT ![i] =
                      [o EXCEPT !.pc = "idle", !.index = 0, !.cand = Empty,
                                !.outcome = "ok", !.dirty = FALSE]]

\* save() as its callers see it when nothing else runs meanwhile
Save(i) ==
    /\ obj[i].born /\ obj[i].pc = "idle"
    /\ LET o == slugify_uniquely(Begun(obj[i])) IN
       IF o.pc = "super"
       THEN SuperSave(i, o)
       ELSE obj' = [obj EXCEPT ![i] = o] /\ db' = db
    /\ UNCHANGED attrVars

\* save() in the steps at which concurrent saves interleave: up to the first
\* query, each query of the loop, and the insert or update
SaveBegin(i) ==
    /\ obj[i].born /\ obj[i].pc = "idle"
    /\ obj' = [obj EXCEPT ![i] = Begun(obj[i])]
    /\ UNCHANGED <<db, attrVars>>

SaveExists(i) ==
    /\ obj[i].pc = "while"
    /\ obj' = [obj EXCEPT ![i] = Looped(obj[i])]
    /\ UNCHANGED <<db, attrVars>>

SaveSuper(i) ==
    /\ obj[i].pc = "super"
    /\ SuperSave(i, obj[i])
    /\ UNCHANGED attrVars

\* --------------------------------------------------- AttributeMixin state
\* attribute names a caller may use; "pk" is also a declared attribute of
\* every owner
Keys == {"pk", "color"}

Values == {"red", "blue"}

NoValue == "NoValue"

Declared == {"pk"}

\* getattr(self, key) for a declared attribute: the owner's primary key,
\* written as its numeral
FieldValue(o, key) == Digit[o + 1]

\* The Attribute table, kept per (owner, name): attrs[o][k] is the values of
\* the rows with that owner and name in insertion order, and a row's identity
\* is <<owner, name, position>>.
Rows ==
    UNION { {<<o, k, n>> : n \in 1..Len(attrs[o][k])} : o \in Owners, k \in Keys }

NoPk == <<0, "", 0>>

ValueOf(pk) == attrs[pk[1]][pk[2]][pk[3]]

\* self.attributes: the rows whose generic foreign key points at owner o
Related(o) == {pk \in Rows : pk[1] = o}

\* variant: a look-up by name that is not restricted to the owner's rows
MatchingAnyOwner(o, key) == {pk \in Rows : pk[2] = key}

\* self.attributes.get(name=key): the rows the look-up matches
Matching(o, key) == {pk \in Related(o) : pk[2] = key}

\* variant: a read that answers a missing key with no value
GetItemDefaulting(o, key) ==
    IF key \in Declared
    THEN {[outcome |-> "ok", ret |-> FieldValue(o, key)]}
    ELSE IF Matching(o, key) = {}
         THEN {[outcome |-> "ok", ret |-> NoValue]}
         ELSE {[outcome |-> "ok", ret |-> ValueOf(pk)] : pk \in Matching(o, key)}

\* variant: a read that consults the rows before the declared attributes
GetItemAttributesFirst(o, key) ==
    IF Matching(o, key) # {}
    THEN {[outcome |-> "ok", ret |-> ValueOf(pk)] : pk \in Matching(o, key)}
    ELSE IF key \in Declared
         THEN {[outcome |-> "ok", ret |-> FieldValue(o, key)]}
         ELSE {[outcome |-> "KeyError", ret |-> NoValue]}

\* __getitem__, the outcomes of owner[key]:
\* getattr first; on AttributeError the snapshot dict(values_list('name',
\* 'value')) indexed by key.  With several rows of one name the dict keeps
\* the one the unordered query yields last: any of them.
GetItemResult(o, key) ==
    IF key \in Declared
    THEN {[outcome |-> "ok", ret |-> FieldValue(o, key)]}
    ELSE IF Matching(o, key) = {}
         THEN {[outcome |-> "KeyError", ret |-> NoValue]}
         ELSE {[outcome |-> "ok", ret |-> ValueOf(pk)] : pk \in Matching(o, key)}

\* variant: a save that always inserts
AttrSaveAlwaysInsert(pk, row) ==
    [attrs EXCEPT ![row.owner][row.name] = Append(@, row.value)]

\* attr.save(): insert when the Attribute has no pk yet, else update its row
AttrSave(pk, row) ==
    IF pk = NoPk
    THEN [attrs EXCEPT ![row.owner][row.name] = Append(@, row.value)]
    ELSE [attrs EXCEPT ![pk[1]][pk[2]][pk[3]] = row.value]

IdleReq == [pc |-> "idle", owner |-> 0, key |-> "pk", value |-> NoValue, attr |-> NoPk]

NoOp ==
    [op |-> "none", owner |-> 0, key |-> "pk", value |-> NoValue,
     outcome |-> "none", ret |-> NoValue, again |-> FALSE]

\* owner[key]
GetItem(r, o, key) ==
    /\ req[r].pc = "idle"
    /\ \E res \in GetItemResult(o, key) :
           last' = [NoOp EXCEPT !.op = "get", !.owner = o, !.key = key,
                                !.outcome = res.outcome, !.ret = res.ret]
    /\ UNCHANGED <<slugVars, attrs, req, written, overlap>>

\* owner[key] = value, the look-up: self.attributes.get(name=key)
Pending(o, key, value) ==
    [pc |-> "save", owner |-> o, key |-> key, value |-> value,
     attr |-> IF Matching(o, key) = {} THEN NoPk
              ELSE CHOOSE pk \in Matching(o, key) : TRUE]

\* the look-up matched several rows: MultipleObjectsReturned
Ambiguous(o, key, value) ==
    /\ last' = [NoOp EXCEPT !.op = "set", !.owner = o, !.key = key, !.value = value,
                            !.outcome = "MultipleObjectsReturned"]
    /\ UNCHANGED <<attrs, req, written, overlap>>

\* owner[key] = value, the rest, q being the request's locals: attr.value =
\* value; attr.save(); del self._attributes.  _attributes is a method of the
\* class, the instance has no attribute of that name to delete:
\* AttributeError.
Stored(q) ==
    /\ attrs' = AttrSave(q.attr, [owner |-> q.owner, name |-> q.key, value |-> q.value])
    /\ written' = [written EXCEPT ![q.owner][q.key] = q.value]
    /\ last' = [NoOp EXCEPT !.op = "set", !.owner = q.owner, !.key = q.key,
                            !.value = q.value, !.outcome = "AttributeError",
                            !.again = written[q.owner][q.key] # NoValue]

\* owner[key] = value as its caller sees it when nothing else runs meanwhile
SetItem(r, o, key, value) ==
    /\ req[r].pc = "idle"
    /\ IF Cardinality(Matching(o, key)) > 1
       THEN Ambiguous(o, key, value)
       ELSE Stored(Pending(o, key, value)) /\ UNCHANGED <<req, overlap>>
    /\ UNCHANGED slugVars

\* owner[key] = value in the steps at which concurrent requests interleave
SetItemGet(r, o, key, value) ==
    /\ req[r].pc = "idle"
    /\ IF Cardinality(Matching(o, key)) > 1
       THEN Ambiguous(o, key, value)
       ELSE /\ req' = [req EXCEPT ![r] = Pending(o, key, value)]
            /\ overlap' = [overlap EXCEPT ![o][key] =
                             @ \/ \E q \in Reqs \ {r} :
                                      /\ req[q].pc = "save"
                                      /\ req[q].owner = o /\ req[q].key = key]
            /\ UNCHANGED <<attrs, written, last>>
    /\ UNCHANGED slugVars

SetItemSave(r) ==
    /\ req[r].pc = "save"
    /\ Stored(req[r])
    /\ req' = [req EXCEPT ![r] = IdleReq]
    /\ UNCHANGED <<slugVars, overlap>>

Init ==
    /\ obj = [i \in Inst |-> Fresh]
    /\ db = <<>>
    /\ attrs = [o \in Owners |-> [k \in Keys |-> <<>>]]
    /\ req = [r \in Reqs |-> IdleReq]
    /\ last = NoOp
    /\ written = [o \in Owners |-> [k \in Keys |-> NoValue]]
    /\ overlap = [o \in Owners |-> [k \in Keys |-> FALSE]]

\* first saves of different instances interleave at their queries
Next ==
    \/ \E i \in Inst, in \in Inputs : Construct(i, in.model, in.text, in.slug)
    \/ \E i \in Inst : obj[i].id = 0 /\ SaveBegin(i)
    \/ \E i \in Inst : SaveExists(i)
    \/ \E i \in Inst : SaveSuper(i)

Spec == Init /\ [][Next]_vars

\* each save returns before the next operation starts
NextSeq ==
    \/ \E i \in Inst, in \in Inputs : Construct(i, in.model, in.text, in.slug)
    \/ \E i \in Inst, text \in NewTexts : SetText(i, text)
    \/ \E i \in Inst : Save(i)

SpecSeq == Init /\ [][NextSeq]_vars

\* sets issued by concurrent requests on one owner interleave at their queries
RaceOwners == {1}

AttrNext ==
    \/ \E r \in Reqs, o \in RaceOwners, key \in Keys : GetItem(r, o, key)
    \/ \E r \in Reqs, o \in RaceOwners, key \in Keys, value \in Values :
           SetItemGet(r, o, key, value)
    \/ \E r \in Reqs : SetItemSave(r)

AttrSpec == Init /\ [][AttrNext]_vars

\* each mapping operation returns before the next starts
AttrNextSeq ==
    \/ \E r \in Reqs, o \in Owners, key \in Keys : GetItem(r, o, key)
    \/ \E r \in Reqs, o \in Owners, key \in Keys, value \in Values :
           SetItem(r, o, key, value)

AttrSpecSeq == Init /\ [][AttrNextSeq]_vars

\* ------------------------------------------------------------ properties
InstOf(k) == obj[db[k].inst]

\* the positions in db of the rows of model m whose slug slugify_uniquely
\* derived from base b, in insertion order
RECURSIVE AutoRows(_, _, _)
AutoRows(m, b, n) ==
    IF n = 0 THEN <<>>
    ELSE IF db[n].model = m /\ InstOf(n).auto /\ InstOf(n).slug_prefix = b
         THEN Append(AutoRows(m, b, n - 1), n)
         ELSE AutoRows(m, b, n - 1)

Bases == {obj[i].slug_prefix : i \in {j \in Inst : obj[j].auto}}

\* b, b-1, b-2, ...: the n-th slug of the family of base b
NthSlug(b, n) == IF n = 1 THEN b ELSE b \o <<"-">> \o str(n - 1)

\* no row of model m holds a slug of the family of b that was not derived from b
NoForeign(m, b) ==
    \A k \in 1..Len(db) :
        (db[k].model = m /\ \E n \in 1..(Len(db) + 1) : db[k].slug = NthSlug(b, n))
            => (InstOf(k).auto /\ InstOf(k).slug_prefix = b)

\* C1: entities of one model whose texts slugify to the same base, first-saved
\* one after another into a table holding no other slug of that base's
\* family, get the slugs base, base-1, base-2, ... in creation order, pairwise
\* distinct.
C1_SequentialSlugs ==
    \A m \in Models, b \in Bases :
        NoForeign(m, b) =>
            LET rows == AutoRows(m, b, Len(db)) IN
            /\ \A n \in 1..Len(rows) : db[rows[n]].slug = NthSlug(b, n)
            /\ \A n1, n2 \in 1..Len(rows) :
                   n1 # n2 => db[rows[n1]].slug # db[rows[n2]].slug

C1_Witness ==
    \E b \in Bases :
        /\ NoForeign("Page", b)
        /\ Len(AutoRows("Page", b, Len(db))) = 3
        /\ \E k1, k2 \in 1..Len(db) : InstOf(k1).title # InstOf(k2).title
        /\ db[3].slug = b \o <<"-", "2">>

\* C2 as claimed: in every interleaving of first saves, an auto-assigned slug
\* differs from the slug of every row of the model stored before it.
C2_NeverCollides ==
    \A k1, k2 \in 1..Len(db) :
        (k1 < k2 /\ db[k1].model = db[k2].model /\ InstOf(k2).auto)
            => db[k1].slug # db[k2].slug

\* C2 amended: an auto-assigned slug differs from the slug of every row of
\* the model stored before it, provided no other instance of the model was
\* inserted while the entity's first save was in progress.
C2_NoCollisionUnlessRaced ==
    \A k1, k2 \in 1..Len(db) :
        (k1 < k2 /\ db[k1].model = db[k2].model /\ InstOf(k2).auto
                 /\ ~InstOf(k2).raced)
            => db[k1].slug # db[k2].slug

C2_Witness ==
    \E k1, k2 \in 1..Len(db) :
        /\ k1 < k2 /\ db[k1].model = db[k2].model
        /\ InstOf(k1).auto /\ InstOf(k2).auto /\ ~InstOf(k2).raced
        /\ InstOf(k1).slug_prefix = InstOf(k2).slug_prefix
        /\ db[k2].slug = InstOf(k2).slug_prefix \o <<"-", "1">>
        /\ \E i \in Inst : obj[i].raced

\* C3: the slug an entity received at its first save is the slug it has, in
\* memory and in its row, after any later text edits and saves.
C3_SlugAssignedOnce ==
    \A i \in Inst :
        (obj[i].saved /\ obj[i].auto)
            => (obj[i].slug = obj[i].first /\ db[obj[i].id].slug = obj[i].first)

C3_Witness ==
    \E i \in Inst :
        /\ obj[i].saved /\ obj[i].auto /\ obj[i].edits > 0 /\ ~obj[i].dirty
        /\ obj[i].title \in NewTexts
        /\ obj[i].slug = obj[i].first /\ obj[i].slug # slugify(obj[i].title)

\* C4: the first save of an entity whose model declares neither title nor
\* name, with no slug set, succeeds and leaves the slug unset.
C4_SaveWithoutTextField ==
    \A i \in Inst :
        (obj[i].born /\ ~Bound(obj[i].model) /\ obj[i].slug = Empty
                     /\ obj[i].outcome # "none")
            => obj[i].outcome = "ok"

\* C5 as claimed: for every owner and key, a read after a set of that key
\* returns the value set.
C5_RoundTrip ==
    (last.op = "get" /\ written[last.owner][last.key] # NoValue)
        => (last.outcome = "ok" /\ last.ret = written[last.owner][last.key])

\* C5 amended: for every owner and every key that is not a declared
\* attribute of the owner, a read after a set of that key has stored its row
\* returns the value set.
C5_RoundTripUndeclared ==
    (last.op = "get" /\ last.key \notin Declared
                     /\ written[last.owner][last.key] # NoValue)
        => (last.outcome = "ok" /\ last.ret = written[last.owner][last.key])

C5_Witness ==
    /\ last.op = "get" /\ last.key \notin Declared
    /\ last.ret = "blue" /\ written[last.owner][last.key] = "blue"
    /\ \E o \in Owners : written[o][last.key] = "red"

\* C6: after a second set of a key on an owner, one set after the other, the
\* table holds exactly one row for that owner and name, with the second value.
C6_SetTwiceOneRow ==
    (last.op = "set" /\ last.again)
        => (attrs[last.owner][last.key] = <<last.value>>)

C6_Witness ==
    /\ last.op = "set" /\ last.again
    /\ attrs[last.owner][last.key] = <<last.value>>

\* C7 as claimed: in every interleaving of sets the table holds at most one
\* row per (owner, name).
C7_OneRowPerName == \A o \in Owners, k \in Keys : Len(attrs[o][k]) <= 1

\* C7 amended: the table holds at most one row per (owner, name) for which
\* no set looked the name up while another set of it had looked it up and
\* not yet saved.
C7_OneRowUnlessOverlap ==
    \A o \in Owners, k \in Keys : ~overlap[o][k] => Len(attrs[o][k]) <= 1

C7_Witness ==
    \E o \in Owners, k1, k2 \in Keys :
        /\ ~overlap[o][k1] /\ Len(attrs[o][k1]) = 1
        /\ last.op = "set" /\ last.again /\ last.owner = o /\ last.key = k1
        /\ overlap[o][k2] /\ Len(attrs[o][k2]) = 2

\* C8: a read of a key that is neither a declared attribute of the owner nor
\* the name of one of its rows signals KeyError and changes no row.
C8_UnknownKeyError ==
    [][(last'.op = "get" /\ last'.key \notin Declared
                         /\ attrs[last'.owner][last'.key] = <<>>)
           => (last'.outcome = "KeyError" /\ attrs' = attrs)]_vars

C8_Witness ==
    /\ last.op = "get" /\ last.key \notin Declared /\ last.outcome = "KeyError"
    /\ attrs[last.owner][last.key] = <<>>
    /\ \E k \in Keys : attrs[last.owner][k] # <<>>

\* C9: a set returns normally once its row is updated or created; the only
\* errors it signals are the storage layer's.
C9_SetReturnsNormally ==
    last.op = "set" => last.outcome \in {"ok", "MultipleObjectsReturned"}

\* C10: a read of a declared attribute returns the attribute's value whatever
\* row of that name is stored; a read of any other key returns the value of
\* the owner's row of that name.
C10_FieldFirst ==
    last.op = "get" =>
        /\ last.key \in Declared =>
               (last.outcome = "ok" /\ last.ret = FieldValue(last.owner, last.key))
        /\ (last.key \notin Declared /\ attrs[last.owner][last.key] # <<>>) =>
               (last.outcome = "ok" /\ <<last.ret>> = attrs[last.owner][last.key])

C10_Witness ==
    /\ last.op = "get" /\ last.key \in Declared
    /\ attrs[last.owner][last.key] # <<>>
    /\ last.ret = FieldValue(last.owner, last.key)
    /\ last.ret # attrs[last.owner][last.key][1]

====
